---- MODULE Spec2Model ----
(***************************************************************************)
(* Identity and access-control core of the Smart Traffic backend: the user *)
(* registry (register, login, owner bootstrap, the owner-only admin API),  *)
(* the refresh-token store and its rotation, logout and logout-all, the    *)
(* password handlers, the JWT gate in front of the protected and the admin *)
(* routes, and the startup sequence of server.js.  The refresh handler is  *)
(* one action per database round trip; every other handler is one action.  *)
(***************************************************************************)
EXTENDS Integers, Sequences, FiniteSets, TLC

\* ------------------------------------------------------------------ bounds
MaxUsers == 2
MaxTokens == 3
MaxRegistryTokens == 2
MaxTime == 1009
MaxCalls == 2
MaxResets == 2

\* --------------------------------------------------------------- constants
\* time is counted in units of ten minutes: the refresh window is 7 days,
\* JWT_EXPIRE is 7d, a password reset token lives 10 minutes
RefreshTTL == 1008
AccessTTL == 1008
ResetTTL == 1
MinPasswordLength == 8

Roles == {"owner", "admin", "operator", "viewer"}
validRoles == {"admin", "operator", "viewer"}
\* role values a request body can carry; "" is an absent (falsy) role
RoleInputs == Roles \cup {"superuser", ""}

OwnerEmail == "owner@x.com"
OwnerDefaultPassword == "Owner@123456"
\* the values OWNER_EMAIL is configured with
OwnerEmailInputs == {"owner@x.com", "Owner@X.com"}
EmailInputs == {"owner@x.com", "a@x.com", "A@x.com"}
PasswordInputs == {"Owner@123456", "password123", "short"}
NameInputs == {"Bob", ""}
Ips == {"10.0.0.1", "10.0.0.2"}

UserIds == 1..MaxUsers
TokenIds == 1..MaxTokens
CallIds == 1..MaxCalls
NoUser == 0
NoToken == 0
NoTime == -1
NoIp == ""
ResetIds == 1..MaxResets
NoReset == 0

VARIABLES users, nextUserId, jwts, refreshTokens, nextToken, now, calls, resp,
          nextReset, server, issued, creating

\* issued: the refresh tokens that a response body has carried to a caller;
\* jwts: the access tokens that one has; creating: the register and
\* createUser requests between their findOne and their User.create
vars == <<users, nextUserId, jwts, refreshTokens, nextToken, now, calls, resp,
          nextReset, server, issued, creating>>

\* String.prototype.toLowerCase on the e-mail inputs
toLowerCase(e) ==
  IF e = "A@x.com" THEN "a@x.com"
  ELSE IF e = "Owner@X.com" THEN "owner@x.com"
  ELSE e

\* ------------------------------------------------------------ credentials
NoCred == [kind |-> "none", id |-> NoUser, email |-> "", role |-> "", exp |-> 0]
ForgedCred == [kind |-> "forged", id |-> 1, email |-> OwnerEmail, role |-> "owner", exp |-> MaxTime + AccessTTL + 1]

\* user.getSignedJwtToken(): {id, email, role}, expiresIn JWT_EXPIRE
getSignedJwtToken(uid, u) ==
  [kind |-> "jwt", id |-> uid, email |-> u.email, role |-> u.role, exp |-> now + AccessTTL]

\* an Authorization header that does not start with 'Bearer'
MalformedCred == [kind |-> "malformed", id |-> NoUser, email |-> "", role |-> "", exp |-> 0]

\* what a client can put in the Authorization header
Credentials == {NoCred, ForgedCred} \cup jwts
HeaderInputs == Credentials \cup {MalformedCred}

\* jwt.verify: signature and expiry
jwtVerify(cred) == cred.kind = "jwt" /\ now < cred.exp

\* ---------------------------------------------------------- user registry
\* User.findOne({ email })
findUserByEmail(e) == {u \in DOMAIN users : users[u].email = e}

\* User.create: a new document with a fresh id; isActive defaults to true
UserCreate(name, email, password, role) ==
  (nextUserId :> [name |-> name, email |-> email, password |-> password,
                  role |-> role, isActive |-> TRUE,
                  resetPasswordToken |-> NoReset,
                  resetPasswordExpire |-> NoTime]) @@ users

\* User.countDocuments({ role: 'owner', isActive: true })
ownerCount(us) == Cardinality({u \in DOMAIN us : us[u].role = "owner" /\ us[u].isActive})

\* user.matchPassword
matchPassword(u, password) == users[u].password = password

Response(op, status, target, role) ==
  [op |-> op, status |-> status, target |-> target, role |-> role]

\* ------------------------------------------------------- refresh store
\* generateRefreshToken: a new document, not yet saved
generateRefreshToken(uid, ip) ==
  [userId |-> uid, expiresAt |-> now + RefreshTTL, createdByIp |-> ip,
   revokedAt |-> NoTime, revokedByIp |-> NoIp, replacedByToken |-> NoToken,
   isActive |-> TRUE]

isExpired_Strict(r) == now > r.expiresAt

\* virtual isExpired
isExpired(r) == now >= r.expiresAt

isValid_IgnoresRevocation(r) == ~isExpired(r)

\* virtual isValid
isValid(r) == r.isActive /\ ~isExpired(r) /\ r.revokedAt = NoTime

\* ------------------------------------------------------------------- gate
requireRole_ExpiredForbidden(cred, roles) ==
  IF cred.kind \in {"none", "malformed"} THEN 401
  ELSE IF ~jwtVerify(cred) THEN 403
  ELSE IF cred.id \notin DOMAIN users THEN 404
  ELSE IF ~users[cred.id].isActive THEN 403
  ELSE IF users[cred.id].role \notin roles THEN 403
  ELSE 200

\* requireRole(...roles): 200 stands for next()
requireRole(cred, roles) ==
  IF cred.kind \in {"none", "malformed"} THEN 401
  ELSE IF ~jwtVerify(cred) THEN 401
  ELSE IF cred.id \notin DOMAIN users THEN 404
  ELSE IF ~users[cred.id].isActive THEN 403
  ELSE IF users[cred.id].role \notin roles THEN 403
  ELSE 200

\* --------------------------------------------------------- auth handlers
registerStatus_NoRoleCheck(email, role) ==
  IF findUserByEmail(toLowerCase(email)) # {} THEN 400 ELSE 201

registerStatus_CaseSensitive(email, role) ==
  IF findUserByEmail(email) # {} THEN 400
  ELSE IF role # "" /\ role \notin validRoles THEN 400
  ELSE 201

\* exports.register: the status it answers with
registerStatus(email, role) ==
  IF findUserByEmail(toLowerCase(email)) # {} THEN 400
  ELSE IF role # "" /\ role \notin validRoles THEN 400
  ELSE 201

registerRole_ForcesViewer(role) == "viewer"

\* exports.register: the role it stores
registerRole(role) == IF role # "" THEN role ELSE "viewer"

Register(name, email, password, role, ip) ==
  /\ resp' = Response("register", registerStatus(email, role),
                      IF registerStatus(email, role) = 201 THEN nextUserId ELSE NoUser, role)
  /\ IF registerStatus(email, role) = 201
     THEN /\ nextUserId <= MaxUsers
          /\ nextToken <= MaxTokens
          /\ users' = UserCreate(name, toLowerCase(email), password, registerRole(role))
          /\ nextUserId' = nextUserId + 1
          /\ jwts' = jwts \cup {getSignedJwtToken(nextUserId, users'[nextUserId])}
          /\ refreshTokens' = (nextToken :> generateRefreshToken(nextUserId, ip)) @@ refreshTokens
          /\ nextToken' = nextToken + 1
          /\ issued' = issued \cup {nextToken}
     ELSE UNCHANGED <<users, nextUserId, jwts, refreshTokens, nextToken, issued>>
  /\ UNCHANGED <<now, calls, nextReset, server, creating>>

\* exports.login: the status it answers with
loginStatus(email, password) ==
  IF email = "" \/ password = "" THEN 400
  ELSE IF findUserByEmail(toLowerCase(email)) = {} THEN 401
  ELSE LET u == CHOOSE u \in findUserByEmail(toLowerCase(email)) : TRUE
       IN IF ~users[u].isActive THEN 403
          ELSE IF ~matchPassword(u, password) THEN 401
          ELSE 200

Login(email, password, ip) ==
  /\ IF loginStatus(email, password) = 200
     THEN LET u == CHOOSE u \in findUserByEmail(toLowerCase(email)) : TRUE
          IN /\ nextToken <= MaxTokens
             /\ resp' = Response("login", 200, u, "")
             /\ jwts' = jwts \cup {getSignedJwtToken(u, users[u])}
             /\ refreshTokens' = (nextToken :> generateRefreshToken(u, ip)) @@ refreshTokens
             /\ nextToken' = nextToken + 1
             /\ issued' = issued \cup {nextToken}
     ELSE /\ resp' = Response("login", loginStatus(email, password), NoUser, "")
          /\ UNCHANGED <<jwts, refreshTokens, nextToken, issued>>
  /\ UNCHANGED <<users, nextUserId, now, calls, nextReset, server, creating>>

\* -------------------------------------------------------- admin handlers
\* each handler: [status, users] for the request, given the registry `users`

createUser_AllowsOwner(name, email, password, role) ==
  IF name = "" \/ email = "" \/ password = "" \/ role = ""
    THEN [status |-> 400, users |-> users]
  ELSE IF Len(password) < MinPasswordLength
    THEN [status |-> 400, users |-> users]
  ELSE IF role \notin Roles
    THEN [status |-> 400, users |-> users]
  ELSE IF findUserByEmail(toLowerCase(email)) # {}
    THEN [status |-> 409, users |-> users]
  ELSE [status |-> 201, users |-> UserCreate(name, toLowerCase(email), password, role)]

createUser(name, email, password, role) ==
  IF name = "" \/ email = "" \/ password = "" \/ role = ""
    THEN [status |-> 400, users |-> users]
  ELSE IF Len(password) < MinPasswordLength
    THEN [status |-> 400, users |-> users]
  ELSE IF role \notin validRoles
    THEN [status |-> 400, users |-> users]
  ELSE IF findUserByEmail(toLowerCase(email)) # {}
    THEN [status |-> 409, users |-> users]
  ELSE [status |-> 201, users |-> UserCreate(name, toLowerCase(email), password, role)]

changeUserRole_NoOwnerCheck(userId, role) ==
  IF role = "" THEN [status |-> 400, users |-> users]
  ELSE IF role \notin validRoles THEN [status |-> 400, users |-> users]
  ELSE IF userId \notin DOMAIN users THEN [status |-> 404, users |-> users]
  ELSE [status |-> 200, users |-> [users EXCEPT ![userId].role = role]]

changeUserRole(userId, role) ==
  IF role = "" THEN [status |-> 400, users |-> users]
  ELSE IF role \notin validRoles THEN [status |-> 400, users |-> users]
  ELSE IF userId \notin DOMAIN users THEN [status |-> 404, users |-> users]
  ELSE IF users[userId].role = "owner" THEN [status |-> 400, users |-> users]
  ELSE IF role # "owner" /\ ownerCount(users) <= 1 /\ users[userId].role = "owner"
    THEN [status |-> 403, users |-> users]
  ELSE [status |-> 200, users |-> [users EXCEPT ![userId].role = role]]

\* User.findByIdAndDelete
findByIdAndDelete(userId) == [u \in DOMAIN users \ {userId} |-> users[u]]

deleteUser_NoSelfCheck(reqUser, userId) ==
  IF userId \notin DOMAIN users THEN [status |-> 404, users |-> users]
  ELSE IF users[userId].role = "owner" THEN [status |-> 403, users |-> users]
  ELSE [status |-> 200, users |-> findByIdAndDelete(userId)]

deleteUser(reqUser, userId) ==
  IF userId \notin DOMAIN users THEN [status |-> 404, users |-> users]
  ELSE IF users[userId].role = "owner" THEN [status |-> 403, users |-> users]
  ELSE IF userId = reqUser THEN [status |-> 403, users |-> users]
  ELSE [status |-> 200, users |-> findByIdAndDelete(userId)]

\* req.body.isActive: "true", "false" or "absent"
ActiveInputs == {"true", "false", "absent"}

activateUser(userId, isActive) ==
  IF userId \notin DOMAIN users THEN [status |-> 404, users |-> users]
  ELSE [status |-> 200, users |-> [users EXCEPT ![userId].isActive = (isActive # "false")]]

\* exports.getAllUsers
getAllUsers == [status |-> 200, users |-> users]

\* exports.getUserById
getUserById(userId) ==
  IF userId \notin DOMAIN users THEN [status |-> 404, users |-> users]
  ELSE [status |-> 200, users |-> users]

\* the handlers adminRoutes.js routes to
AdminOps == {"getAllUsers", "getUserById", "createUser", "changeUserRole",
             "activateUser", "deleteUser"}

AdminRoute_AdminAllowed(op, cred, result, target, role) ==
  /\ IF requireRole(cred, {"owner", "admin"}) # 200
     THEN /\ resp' = Response(op, requireRole(cred, {"owner", "admin"}), target, role)
          /\ UNCHANGED <<users, nextUserId>>
     ELSE /\ resp' = Response(op, result.status, target, role)
          /\ users' = result.users
          /\ nextUserId' = IF nextUserId \in DOMAIN result.users THEN nextUserId + 1 ELSE nextUserId
  /\ UNCHANGED <<jwts, refreshTokens, nextToken, now, calls, nextReset, server, issued, creating>>

AdminRoute_LocksForbiddenCaller(op, cred, result, target, role) ==
  /\ IF requireRole(cred, {"owner"}) # 200
     THEN /\ resp' = Response(op, requireRole(cred, {"owner"}), target, role)
          /\ users' = IF cred.id \in DOMAIN users /\ requireRole(cred, {"owner"}) = 403
                      THEN [users EXCEPT ![cred.id].isActive = FALSE]
                      ELSE users
          /\ UNCHANGED nextUserId
     ELSE /\ resp' = Response(op, result.status, target, role)
          /\ users' = result.users
          /\ nextUserId' = IF nextUserId \in DOMAIN result.users THEN nextUserId + 1 ELSE nextUserId
  /\ UNCHANGED <<jwts, refreshTokens, nextToken, now, calls, nextReset, server, issued, creating>>

\* a route of adminRoutes.js: requireRole('owner'), then the handler
AdminRoute(op, cred, result, target, role) ==
  /\ IF requireRole(cred, {"owner"}) # 200
     THEN /\ resp' = Response(op, requireRole(cred, {"owner"}), target, role)
          /\ UNCHANGED <<users, nextUserId>>
     ELSE /\ resp' = Response(op, result.status, target, role)
          /\ users' = result.users
          /\ nextUserId' = IF nextUserId \in DOMAIN result.users THEN nextUserId + 1 ELSE nextUserId
  /\ UNCHANGED <<jwts, refreshTokens, nextToken, now, calls, nextReset, server, issued, creating>>

AdminCreateUser(cred, name, email, password, role) ==
  /\ nextUserId <= MaxUsers
  /\ AdminRoute("createUser", cred, createUser(name, email, password, role), NoUser, role)

AdminChangeUserRole(cred, userId, role) ==
  AdminRoute("changeUserRole", cred, changeUserRole(userId, role), userId, role)

AdminDeleteUser(cred, userId) ==
  AdminRoute("deleteUser", cred, deleteUser(cred.id, userId), userId, "")

AdminActivateUser(cred, userId, isActive) ==
  AdminRoute("activateUser", cred, activateUser(userId, isActive), userId, isActive)

\* GET /users: the response records the id the credential names
AdminGetAllUsers(cred) ==
  AdminRoute("getAllUsers", cred, getAllUsers, cred.id, "")

AdminGetUserById(cred, userId) ==
  AdminRoute("getUserById", cred, getUserById(userId), userId, "")

\* -------------------------------------------------------------- bootstrap
\* the lowercase setter of the User schema's email path: mongoose applies it
\* to a document's value and to the value of a query filter
castEmail(e) == toLowerCase(e)

bootstrapOwner_AlwaysCreates(ownerEmail) ==
  UserCreate("System Owner", castEmail(ownerEmail), OwnerDefaultPassword, "owner")

\* bootstrapOwner with OWNER_EMAIL set to ownerEmail: the registry it leaves
bootstrapOwner(ownerEmail) ==
  IF findUserByEmail(castEmail(ownerEmail)) # {}
  THEN LET o == CHOOSE u \in findUserByEmail(castEmail(ownerEmail)) : TRUE
       IN IF users[o].role # "owner"
          THEN [users EXCEPT ![o].role = "owner", ![o].isActive = TRUE]
          ELSE users
  ELSE UserCreate("System Owner", castEmail(ownerEmail), OwnerDefaultPassword, "owner")

Bootstrap(ownerEmail) ==
  /\ findUserByEmail(castEmail(ownerEmail)) = {} => nextUserId <= MaxUsers
  /\ users' = bootstrapOwner(ownerEmail)
  /\ nextUserId' = IF nextUserId \in DOMAIN users' THEN nextUserId + 1 ELSE nextUserId
  /\ resp' = Response("bootstrap", 0,
                      CHOOSE u \in DOMAIN users' : users'[u].email = castEmail(ownerEmail), "owner")
  /\ server' = [server EXCEPT !.bootstrapped = TRUE]
  /\ UNCHANGED <<jwts, refreshTokens, nextToken, now, calls, nextReset, issued, creating>>

\* ------------------------------------------------------------------ clock
\* the instants at which the clock is read: around each expiry of a window
\* that was opened at time 0
Instants == {t \in 0..MaxTime : t % RefreshTTL <= ResetTTL}

Tick ==
  /\ now < MaxTime
  /\ \E t \in Instants : t > now /\ now' = t
  /\ UNCHANGED <<users, nextUserId, jwts, refreshTokens, nextToken, calls, resp, nextReset, server, issued, creating>>

\* ---------------------------------------------------------- initial state
\* an empty database, no request in flight
IdleCall == [pc |-> "idle", token |-> NoToken, ip |-> NoIp, userId |-> NoUser,
             access |-> NoCred, newToken |-> NoToken, at |-> NoTime, status |-> 0]

Init ==
  /\ users = <<>>
  /\ nextUserId = 1
  /\ jwts = {}
  /\ refreshTokens = <<>>
  /\ nextToken = 1
  /\ now = 0
  /\ calls = [c \in CallIds |-> IdleCall]
  /\ resp = Response("none", 0, NoUser, "")
  /\ nextReset = 1
  /\ server = [listening |-> FALSE, bootstrapped |-> FALSE]
  /\ issued = {}
  /\ creating = {}

\* ------------------------------------------------- registry specification
\* bootstrap, self-registration, login and the owner-only admin API
NextRegistry ==
  \/ \E o \in OwnerEmailInputs : Bootstrap(o)
  \/ \E e \in EmailInputs, r \in RoleInputs :
       nextToken <= MaxRegistryTokens /\ Register("Bob", e, "password123", r, "10.0.0.1")
  \/ \E e \in EmailInputs, p \in PasswordInputs :
       nextToken <= MaxRegistryTokens /\ Login(e, p, "10.0.0.1")
  \/ \E c \in Credentials, n \in NameInputs, e \in EmailInputs, p \in {"password123", "short"}, r \in RoleInputs :
       AdminCreateUser(c, n, e, p, r)
  \/ \E c \in Credentials, u \in UserIds, r \in RoleInputs : AdminChangeUserRole(c, u, r)
  \/ \E c \in Credentials, u \in UserIds : AdminDeleteUser(c, u)
  \/ \E c \in Credentials, u \in UserIds, a \in ActiveInputs : AdminActivateUser(c, u, a)
  \/ \E c \in Credentials : AdminGetAllUsers(c)
  \/ \E c \in Credentials, u \in UserIds : AdminGetUserById(c, u)

SpecRegistry == Init /\ [][NextRegistry]_vars

\* --------------------------------------------------------------- protect
protect_ActiveNotChecked(cred) ==
  IF cred.kind \in {"none", "malformed"} THEN 401
  ELSE IF ~jwtVerify(cred) THEN 401
  ELSE IF cred.id \notin DOMAIN users THEN 404
  ELSE 200

protect_RequiresSession(cred) ==
  IF cred.kind \in {"none", "malformed"} THEN 401
  ELSE IF ~jwtVerify(cred) THEN 401
  ELSE IF cred.id \notin DOMAIN users THEN 404
  ELSE IF ~users[cred.id].isActive THEN 403
  ELSE IF \A t \in DOMAIN refreshTokens :
            refreshTokens[t].userId = cred.id => ~refreshTokens[t].isActive
    THEN 401
  ELSE 200

\* exports.protect: 200 stands for next()
protect(cred) ==
  IF cred.kind \in {"none", "malformed"} THEN 401
  ELSE IF ~jwtVerify(cred) THEN 401
  ELSE IF cred.id \notin DOMAIN users THEN 404
  ELSE IF ~users[cred.id].isActive THEN 403
  ELSE 200

\* exports.getMe behind protect: the response records req.user, the
\* principal the handler ran for
GetMe(cred) ==
  /\ resp' = Response("getMe", protect(cred),
                      IF protect(cred) = 200 THEN cred.id ELSE NoUser, "")
  /\ UNCHANGED <<users, nextUserId, jwts, refreshTokens, nextToken, now, calls,
                 nextReset, server, issued, creating>>

\* ----------------------------------------------------- gate specification
\* credentials that expire, users that are deactivated or deleted, and
\* requests through protect and through requireRole('owner')
NextGate ==
  \/ Bootstrap(OwnerEmail)
  \/ nextToken <= MaxRegistryTokens /\ Register("Bob", "a@x.com", "password123", "", "10.0.0.1")
  \/ nextToken <= MaxRegistryTokens /\ Login(OwnerEmail, OwnerDefaultPassword, "10.0.0.1")
  \/ \E c \in HeaderInputs : GetMe(c)
  \/ \E c \in HeaderInputs : AdminGetAllUsers(c)
  \/ \E c \in HeaderInputs, u \in UserIds, a \in ActiveInputs : AdminActivateUser(c, u, a)
  \/ \E c \in HeaderInputs, u \in UserIds : AdminDeleteUser(c, u)
  \/ Tick

SpecGate == Init /\ [][NextGate]_vars

\* ------------------------------------------------------ refresh handler
\* exports.refreshToken, one action per database round trip.  calls[c] is
\* the request's local state: the presented token, the client ip, the user
\* id read from the token document, the new access and refresh tokens and
\* the time of the block that generated them.

Finish(c, status) == [calls EXCEPT ![c].pc = "done", ![c].status = status]

\* RefreshToken.findOne({ token }) and the isValid check
RefreshFind(c, token, ip) ==
  /\ calls[c].pc \in {"idle", "done"}
  /\ LET call == [IdleCall EXCEPT !.token = token, !.ip = ip]
     IN calls' =
          IF token = NoToken
            THEN [calls EXCEPT ![c] = [call EXCEPT !.pc = "done", !.status = 400]]
          ELSE IF token \notin DOMAIN refreshTokens
            THEN [calls EXCEPT ![c] = [call EXCEPT !.pc = "done", !.status = 401]]
          ELSE IF ~isValid(refreshTokens[token])
            THEN [calls EXCEPT ![c] = [call EXCEPT !.pc = "done", !.status = 401]]
          ELSE [calls EXCEPT ![c] = [call EXCEPT !.pc = "user",
                                                  !.userId = refreshTokens[token].userId]]
  /\ UNCHANGED <<users, nextUserId, jwts, refreshTokens, nextToken, now, resp, nextReset, server, issued, creating>>

RefreshUser_ActiveNotChecked(c) ==
  /\ calls[c].pc = "user"
  /\ IF calls[c].userId \notin DOMAIN users
     THEN /\ calls' = Finish(c, 401)
          /\ UNCHANGED nextToken
     ELSE /\ nextToken <= MaxTokens
          /\ calls' = [calls EXCEPT ![c].pc = "revoke",
                                    ![c].access = getSignedJwtToken(calls[c].userId, users[calls[c].userId]),
                                    ![c].newToken = nextToken,
                                    ![c].at = now]
          /\ nextToken' = nextToken + 1
  /\ UNCHANGED <<users, nextUserId, jwts, refreshTokens, now, resp, nextReset, server, issued, creating>>

\* User.findById, then the new pair is generated and revoke() is called
RefreshUser(c) ==
  /\ calls[c].pc = "user"
  /\ IF calls[c].userId \notin DOMAIN users \/ ~users[calls[c].userId].isActive
     THEN /\ calls' = Finish(c, 401)
          /\ UNCHANGED nextToken
     ELSE /\ nextToken <= MaxTokens
          /\ calls' = [calls EXCEPT ![c].pc = "revoke",
                                    ![c].access = getSignedJwtToken(calls[c].userId, users[calls[c].userId]),
                                    ![c].newToken = nextToken,
                                    ![c].at = now]
          /\ nextToken' = nextToken + 1
  /\ UNCHANGED <<users, nextUserId, jwts, refreshTokens, now, resp, nextReset, server, issued, creating>>

revoke_TogglesActive(r, at, ip) ==
  [r EXCEPT !.revokedAt = at, !.revokedByIp = ip, !.isActive = ~r.isActive]

\* the write of refreshToken.revoke(ip): save() of the modified paths
revoke(r, at, ip) == [r EXCEPT !.revokedAt = at, !.revokedByIp = ip, !.isActive = FALSE]

RefreshRevoke_EverySession(c) ==
  /\ calls[c].pc = "revoke"
  /\ refreshTokens' =
       [t \in DOMAIN refreshTokens |->
          IF t = calls[c].token
          THEN revoke([refreshTokens[t] EXCEPT !.replacedByToken = calls[c].newToken],
                      calls[c].at, calls[c].ip)
          ELSE IF refreshTokens[t].userId = calls[c].userId
          THEN revoke(refreshTokens[t], calls[c].at, calls[c].ip)
          ELSE refreshTokens[t]]
  /\ calls' = [calls EXCEPT ![c].pc = "save"]
  /\ UNCHANGED <<users, nextUserId, jwts, nextToken, now, resp, nextReset, server, issued, creating>>

RefreshRevoke(c) ==
  /\ calls[c].pc = "revoke"
  /\ refreshTokens' =
       [refreshTokens EXCEPT ![calls[c].token] =
          revoke([@ EXCEPT !.replacedByToken = calls[c].newToken], calls[c].at, calls[c].ip)]
  /\ calls' = [calls EXCEPT ![c].pc = "save"]
  /\ UNCHANGED <<users, nextUserId, jwts, nextToken, now, resp, nextReset, server, issued, creating>>

\* newRefreshToken.save() and the 200 response
RefreshSave(c) ==
  /\ calls[c].pc = "save"
  /\ refreshTokens' =
       (calls[c].newToken :>
          [generateRefreshToken(calls[c].userId, calls[c].ip)
             EXCEPT !.expiresAt = calls[c].at + RefreshTTL]) @@ refreshTokens
  /\ jwts' = jwts \cup {calls[c].access}
  /\ issued' = issued \cup {calls[c].newToken}
  /\ calls' = Finish(c, 200)
  /\ UNCHANGED <<users, nextUserId, nextToken, now, resp, nextReset, server, creating>>

\* exports.logout behind protect
Logout(cred, token, ip) ==
  /\ resp' = Response("logout", protect(cred), NoUser, "")
  /\ IF protect(cred) = 200 /\ token # NoToken /\ token \in DOMAIN refreshTokens
     THEN refreshTokens' = [refreshTokens EXCEPT ![token] = revoke(@, now, ip)]
     ELSE UNCHANGED refreshTokens
  /\ UNCHANGED <<users, nextUserId, jwts, nextToken, now, calls, nextReset, server, issued, creating>>

revokeAllForUser_ThisDeviceOnly(userId, ip) ==
  [t \in DOMAIN refreshTokens |->
     IF /\ refreshTokens[t].userId = userId
        /\ refreshTokens[t].isActive
        /\ refreshTokens[t].createdByIp = ip
     THEN revoke(refreshTokens[t], now, ip)
     ELSE refreshTokens[t]]

revokeAllForUser_EveryUser(userId, ip) ==
  [t \in DOMAIN refreshTokens |->
     IF refreshTokens[t].isActive
     THEN revoke(refreshTokens[t], now, ip)
     ELSE refreshTokens[t]]

\* RefreshToken.revokeAllForUser: updateMany({ userId, isActive: true }, ...)
revokeAllForUser(userId, ip) ==
  [t \in DOMAIN refreshTokens |->
     IF refreshTokens[t].userId = userId /\ refreshTokens[t].isActive
     THEN revoke(refreshTokens[t], now, ip)
     ELSE refreshTokens[t]]

\* exports.logoutAll behind protect
LogoutAll(cred, ip) ==
  /\ resp' = Response("logoutAll", protect(cred),
                      IF protect(cred) = 200 THEN cred.id ELSE NoUser, "")
  /\ refreshTokens' = IF protect(cred) = 200
                      THEN revokeAllForUser(cred.id, ip)
                      ELSE refreshTokens
  /\ UNCHANGED <<users, nextUserId, jwts, nextToken, now, calls, nextReset, server, issued, creating>>

\* ------------------------------------------------------ password handlers
\* crypto.createHash('sha256') of a reset token: an injective digest
sha256(resetToken) == resetToken + 100

\* req.body.currentPassword, newPassword and resetToken; "" and NoReset are
\* an absent field
CurrentPasswordInputs == {"password123", "newpass456", ""}
NewPasswordInputs == {"newpass456", ""}
ResetInputs == ResetIds \cup {NoReset}

\* exports.changePassword: the status it answers with
changePasswordStatus(cred, currentPassword, newPassword) ==
  IF protect(cred) # 200 THEN protect(cred)
  ELSE IF currentPassword = "" \/ newPassword = "" THEN 400
  ELSE IF ~matchPassword(cred.id, currentPassword) THEN 401
  ELSE 200

\* exports.changePassword behind protect
ChangePassword(cred, currentPassword, newPassword, ip) ==
  /\ resp' = Response("changePassword",
                      changePasswordStatus(cred, currentPassword, newPassword),
                      IF protect(cred) = 200 THEN cred.id ELSE NoUser, "")
  /\ IF changePasswordStatus(cred, currentPassword, newPassword) = 200
     THEN /\ users' = [users EXCEPT ![cred.id].password = newPassword]
          /\ refreshTokens' = revokeAllForUser(cred.id, ip)
     ELSE UNCHANGED <<users, refreshTokens>>
  /\ UNCHANGED <<nextUserId, jwts, nextToken, now, calls, nextReset, server, issued, creating>>

\* the message of forgotPassword's body when no account has the e-mail
ResetLinkSentMessage == "If an account exists with this email, a password reset link has been sent"
\* and when an account has it
ResetTokenGeneratedMessage == "Password reset token generated"

\* exports.forgotPassword: the token is new for every call.  The response
\* records the body: data.resetToken (NoReset when the body has no data) as
\* target and the message as role.
ForgotPassword(email) ==
  /\ IF email = ""
     THEN /\ resp' = Response("forgotPassword", 400, NoReset, "Please provide email")
          /\ UNCHANGED <<users, nextReset>>
     ELSE IF findUserByEmail(toLowerCase(email)) = {}
     THEN /\ resp' = Response("forgotPassword", 200, NoReset, ResetLinkSentMessage)
          /\ UNCHANGED <<users, nextReset>>
     ELSE LET u == CHOOSE u \in findUserByEmail(toLowerCase(email)) : TRUE
          IN /\ nextReset <= MaxResets
             /\ users' = [users EXCEPT ![u].resetPasswordToken = sha256(nextReset),
                                       ![u].resetPasswordExpire = now + ResetTTL]
             /\ nextReset' = nextReset + 1
             /\ resp' = Response("forgotPassword", 200, nextReset, ResetTokenGeneratedMessage)
  /\ UNCHANGED <<nextUserId, jwts, refreshTokens, nextToken, now, calls, server, issued, creating>>

findUserByResetToken_IgnoresExpiry(hashedToken) ==
  {u \in DOMAIN users : users[u].resetPasswordToken = hashedToken}

\* User.findOne({ resetPasswordToken, resetPasswordExpire: { $gt: now } })
findUserByResetToken(hashedToken) ==
  {u \in DOMAIN users : /\ users[u].resetPasswordToken = hashedToken
                        /\ users[u].resetPasswordExpire > now}

ResetPassword_KeepsSessions(resetToken, newPassword, ip) ==
  /\ IF resetToken = NoReset \/ newPassword = ""
     THEN /\ resp' = Response("resetPassword", 400, NoUser, "")
          /\ UNCHANGED <<users, refreshTokens>>
     ELSE IF findUserByResetToken(sha256(resetToken)) = {}
     THEN /\ resp' = Response("resetPassword", 400, NoUser, "")
          /\ UNCHANGED <<users, refreshTokens>>
     ELSE LET u == CHOOSE u \in findUserByResetToken(sha256(resetToken)) : TRUE
          IN /\ users' = [users EXCEPT ![u].password = newPassword,
                                       ![u].resetPasswordToken = NoReset,
                                       ![u].resetPasswordExpire = NoTime]
             /\ UNCHANGED refreshTokens
             /\ resp' = Response("resetPassword", 200, u, "")
  /\ UNCHANGED <<nextUserId, jwts, nextToken, now, calls, nextReset, server, issued, creating>>

\* exports.resetPassword
ResetPassword(resetToken, newPassword, ip) ==
  /\ IF resetToken = NoReset \/ newPassword = ""
     THEN /\ resp' = Response("resetPassword", 400, NoUser, "")
          /\ UNCHANGED <<users, refreshTokens>>
     ELSE IF findUserByResetToken(sha256(resetToken)) = {}
     THEN /\ resp' = Response("resetPassword", 400, NoUser, "")
          /\ UNCHANGED <<users, refreshTokens>>
     ELSE LET u == CHOOSE u \in findUserByResetToken(sha256(resetToken)) : TRUE
          IN /\ users' = [users EXCEPT ![u].password = newPassword,
                                       ![u].resetPasswordToken = NoReset,
                                       ![u].resetPasswordExpire = NoTime]
             /\ refreshTokens' = revokeAllForUser(u, ip)
             /\ resp' = Response("resetPassword", 200, u, "")
  /\ UNCHANGED <<nextUserId, jwts, nextToken, now, calls, nextReset, server, issued, creating>>

\* ------------------------------------------------ rotation specification
\* sessions of a registered user: refresh calls in flight, logout and the
\* clock
TokenInputs == TokenIds \cup {NoToken}

NextRotate ==
  \/ Register("Bob", "a@x.com", "password123", "", "10.0.0.1")
  \/ \E c \in CallIds, t \in TokenInputs : RefreshFind(c, t, "10.0.0.2")
  \/ \E c \in CallIds : RefreshUser(c)
  \/ \E c \in CallIds : RefreshRevoke(c)
  \/ \E c \in CallIds : RefreshSave(c)
  \/ \E cred \in Credentials, t \in TokenInputs : Logout(cred, t, "10.0.0.1")
  \/ Tick

SpecRotate == Init /\ [][NextRotate]_vars

\* ------------------------------------------------- session specification
\* a user's sessions on several devices, one refresh call at a time, and the
\* operations that end every session
NextSession ==
  \/ Register("Bob", "a@x.com", "password123", "", "10.0.0.1")
  \/ \E p \in PasswordInputs : Login("a@x.com", p, "10.0.0.1")
  \/ \E t \in TokenInputs : RefreshFind(1, t, "10.0.0.2")
  \/ RefreshUser(1)
  \/ RefreshRevoke(1)
  \/ RefreshSave(1)
  \/ \E cred \in Credentials : LogoutAll(cred, "10.0.0.1")
  \/ Tick

SpecSession == Init /\ [][NextSession]_vars

\* ------------------------------------------------ password specification
\* one user with sessions on two devices who changes, forgets and resets
\* the password
NextPassword ==
  \/ Register("Bob", "a@x.com", "password123", "", "10.0.0.1")
  \/ \E p \in CurrentPasswordInputs : Login("a@x.com", p, "10.0.0.1")
  \/ \E cred \in Credentials, cur \in CurrentPasswordInputs, new \in NewPasswordInputs :
       ChangePassword(cred, cur, new, "10.0.0.1")
  \/ \E e \in {"a@x.com", "owner@x.com", ""} : ForgotPassword(e)
  \/ \E r \in ResetInputs, new \in NewPasswordInputs : ResetPassword(r, new, "10.0.0.2")
  \/ Tick

SpecPassword == Init /\ [][NextPassword]_vars

\* --------------------------------------------------- server specification
\* server.js: connectDB() is started and not awaited, the three routers are
\* mounted, a request for any other path reaches the 404 handler, and
\* server.listen opens the port.  bootstrapOwner is not called.
MountedPaths == {"/api/auth", "/api/test", "/api/dashboard"}
PathInputs == MountedPaths \cup {"/api/admin"}

ServerListen ==
  /\ ~server.listening
  /\ server' = [server EXCEPT !.listening = TRUE]
  /\ UNCHANGED <<users, nextUserId, jwts, refreshTokens, nextToken, now, calls,
                 resp, nextReset, issued, creating>>

\* app.use('/api/auth', authRoutes): register and login
ServerAuthRequest(email, password, role) ==
  /\ server.listening
  /\ \/ Register("Bob", email, password, role, "10.0.0.1")
     \/ Login(email, password, "10.0.0.1")

\* a request under a path no router is mounted on: the 404 handler
ServerNotFound(path, cred) ==
  /\ server.listening
  /\ path \notin MountedPaths
  /\ resp' = Response(path, 404, NoUser, "")
  /\ UNCHANGED <<users, nextUserId, jwts, refreshTokens, nextToken, now, calls,
                 nextReset, server, issued, creating>>

NextServer ==
  \/ ServerListen
  \/ \E e \in EmailInputs, p \in PasswordInputs, r \in RoleInputs : ServerAuthRequest(e, p, r)
  \/ \E path \in PathInputs, c \in Credentials : ServerNotFound(path, c)

SpecServer == Init /\ [][NextServer]_vars

\* ------------------------------------------------- storage-fault actions
\* a rejected save(): asyncHandler hands the error to the error handler,
\* which answers 500

\* refreshToken.revoke(ip) rejects: nothing is written
RefreshRevokeFail(c) ==
  /\ calls[c].pc = "revoke"
  /\ calls' = Finish(c, 500)
  /\ UNCHANGED <<users, nextUserId, jwts, refreshTokens, nextToken, now, resp, nextReset, server, issued, creating>>

RefreshSaveFail_RespondsFirst(c) ==
  /\ calls[c].pc = "save"
  /\ jwts' = jwts \cup {calls[c].access}
  /\ issued' = issued \cup {calls[c].newToken}
  /\ calls' = Finish(c, 200)
  /\ UNCHANGED <<users, nextUserId, refreshTokens, nextToken, now, resp, nextReset, server, creating>>

\* newRefreshToken.save() rejects: the new document is not stored and
\* res.json is not reached
RefreshSaveFail(c) ==
  /\ calls[c].pc = "save"
  /\ calls' = Finish(c, 500)
  /\ UNCHANGED <<users, nextUserId, jwts, refreshTokens, nextToken, now, resp, nextReset, server, issued, creating>>

\* exports.register when refreshToken.save() rejects: User.create has stored
\* the user, res.json is not reached
RegisterSaveFail(name, email, password, role, ip) ==
  /\ registerStatus(email, role) = 201
  /\ nextUserId <= MaxUsers
  /\ users' = UserCreate(name, toLowerCase(email), password, registerRole(role))
  /\ nextUserId' = nextUserId + 1
  /\ resp' = Response("register", 500, NoUser, role)
  /\ UNCHANGED <<jwts, refreshTokens, nextToken, now, calls, nextReset, server, issued, creating>>

\* exports.login when refreshToken.save() rejects: res.json is not reached
LoginSaveFail(email, password, ip) ==
  /\ loginStatus(email, password) = 200
  /\ resp' = Response("login", 500, NoUser, "")
  /\ UNCHANGED <<users, nextUserId, jwts, refreshTokens, nextToken, now, calls, nextReset, server, issued, creating>>

\* one refresh call at a time against a store whose writes can fail
NextFault ==
  \/ Register("Bob", "a@x.com", "password123", "", "10.0.0.1")
  \/ RegisterSaveFail("Bob", "a@x.com", "password123", "", "10.0.0.1")
  \/ Login("a@x.com", "password123", "10.0.0.1")
  \/ LoginSaveFail("a@x.com", "password123", "10.0.0.1")
  \/ \E t \in TokenInputs : RefreshFind(1, t, "10.0.0.2")
  \/ RefreshUser(1)
  \/ RefreshRevoke(1)
  \/ RefreshSave(1)
  \/ RefreshRevokeFail(1)
  \/ RefreshSaveFail(1)
  \/ Tick

SpecFault == Init /\ [][NextFault]_vars

\* ------------------------------------------------------ permission gates
\* the keys of a PERMISSIONS entry
Permissions == {"viewDashboard", "viewMap", "viewAnalytics", "modifySignals",
                "overrideSignals", "manageEmergencies", "manageUsers",
                "viewSettings", "modifySettings"}

\* the roles PERMISSIONS has an entry for
PermissionRoles == {"admin", "operator", "viewer"}

\* PERMISSIONS[role]: the permissions whose value is true
PERMISSIONS(role) ==
  IF role = "admin" THEN Permissions
  ELSE IF role = "operator"
    THEN {"viewDashboard", "viewMap", "viewAnalytics", "modifySignals",
          "manageEmergencies", "viewSettings"}
  ELSE {"viewDashboard", "viewMap", "viewAnalytics"}

\* the permission lists a route passes to hasAnyPermission / hasAllPermissions
PermissionLists == {{q} : q \in Permissions}
                     \cup {{"viewDashboard", "manageUsers"}, Permissions}

hasPermission_TokenRole(cred, permission) ==
  IF protect(cred) # 200 THEN protect(cred)
  ELSE IF cred.role \notin PermissionRoles THEN 403
  ELSE IF permission \notin PERMISSIONS(cred.role) THEN 403
  ELSE 200

\* hasPermission(permission) behind protect: req.user is the document that
\* protect loaded; 200 stands for next()
hasPermission(cred, permission) ==
  IF protect(cred) # 200 THEN protect(cred)
  ELSE IF users[cred.id].role \notin PermissionRoles THEN 403
  ELSE IF permission \notin PERMISSIONS(users[cred.id].role) THEN 403
  ELSE 200

\* hasAnyPermission(permissions) behind protect
hasAnyPermission(cred, permissions) ==
  IF protect(cred) # 200 THEN protect(cred)
  ELSE IF users[cred.id].role \notin PermissionRoles THEN 403
  ELSE IF permissions \cap PERMISSIONS(users[cred.id].role) = {} THEN 403
  ELSE 200

\* hasAllPermissions(permissions) behind protect
hasAllPermissions(cred, permissions) ==
  IF protect(cred) # 200 THEN protect(cred)
  ELSE IF users[cred.id].role \notin PermissionRoles THEN 403
  ELSE IF ~(permissions \subseteq PERMISSIONS(users[cred.id].role)) THEN 403
  ELSE 200

\* a request through protect and one of the permission gates; the response
\* records the credential's user, the gate and hasPermission's permission
PermissionRequest(cred, gate, permissions) ==
  /\ resp' = Response(gate,
                      IF gate = "hasPermission"
                        THEN hasPermission(cred, CHOOSE q \in permissions : TRUE)
                      ELSE IF gate = "hasAnyPermission"
                        THEN hasAnyPermission(cred, permissions)
                      ELSE hasAllPermissions(cred, permissions),
                      cred.id,
                      IF gate = "hasPermission" THEN CHOOSE q \in permissions : TRUE ELSE "")
  /\ UNCHANGED <<users, nextUserId, jwts, refreshTokens, nextToken, now, calls,
                 nextReset, server, issued, creating>>

\* a request through requireRole(...roles) to a read-only handler
RequireRoleRequest(cred, roles) ==
  /\ resp' = Response("requireRole", requireRole(cred, roles), cred.id, "")
  /\ UNCHANGED <<users, nextUserId, jwts, refreshTokens, nextToken, now, calls,
                 nextReset, server, issued, creating>>

\* the role lists a route passes to requireRole
RoleLists == {{"owner"}, {"owner", "admin"}, {"admin", "operator"}, Roles}

\* users of every role, the owner changing roles, and requests through the
\* permission gates and requireRole with credentials issued before and
\* after a change
NextPermission ==
  \/ Bootstrap(OwnerEmail)
  \/ nextToken <= MaxRegistryTokens /\ Login(OwnerEmail, OwnerDefaultPassword, "10.0.0.1")
  \/ \E r \in {"", "admin"} :
       nextToken <= MaxRegistryTokens /\ Register("Bob", "a@x.com", "password123", r, "10.0.0.1")
  \/ \E cred \in jwts, u \in UserIds, r \in validRoles : AdminChangeUserRole(cred, u, r)
  \/ \E cred \in Credentials, gate \in {"hasPermission", "hasAnyPermission", "hasAllPermissions"},
        ps \in PermissionLists :
       (gate = "hasPermission" => Cardinality(ps) = 1) /\ PermissionRequest(cred, gate, ps)
  \/ \E cred \in Credentials, roles \in RoleLists : RequireRoleRequest(cred, roles)

SpecPermission == Init /\ [][NextPermission]_vars

\* ------------------------------------------- concurrent user creation
\* register and createUser as two database round trips: User.findOne, then
\* User.create.  Another request can run between the two.

\* exports.register up to User.create: no user has the e-mail, the role is
\* accepted
RegisterFindOne(c, name, email, password, role, ip) ==
  /\ \A p \in creating : p.c # c
  /\ registerStatus(email, role) = 201
  /\ creating' = creating \cup
       {[c |-> c, op |-> "register", name |-> name, email |-> toLowerCase(email),
         password |-> password, role |-> registerRole(role), ip |-> ip]}
  /\ UNCHANGED <<users, nextUserId, jwts, refreshTokens, nextToken, now, calls, resp,
                 nextReset, server, issued>>

\* exports.createUser behind requireRole('owner'), up to User.create
CreateUserFindOne(c, cred, name, email, password, role, ip) ==
  /\ \A p \in creating : p.c # c
  /\ requireRole(cred, {"owner"}) = 200
  /\ createUser(name, email, password, role).status = 201
  /\ creating' = creating \cup
       {[c |-> c, op |-> "createUser", name |-> name, email |-> toLowerCase(email),
         password |-> password, role |-> role, ip |-> ip]}
  /\ UNCHANGED <<users, nextUserId, jwts, refreshTokens, nextToken, now, calls, resp,
                 nextReset, server, issued>>

\* the unique index on the User schema's email path: an insert of an e-mail
\* that a stored user has is rejected with a duplicate-key error
uniqueEmailIndex(email) == findUserByEmail(email) = {}

\* the status the error handler gives a duplicate-key error
DuplicateKeyStatus == {400, 500}

\* User.create of a request in `creating` and the rest of its handler:
\* register goes on to issue the token pair, createUser answers 201
UserCreateWrite(p) ==
  /\ p \in creating
  /\ creating' = creating \ {p}
  /\ IF ~uniqueEmailIndex(p.email)
     THEN /\ \E st \in DuplicateKeyStatus : resp' = Response(p.op, st, NoUser, p.role)
          /\ UNCHANGED <<users, nextUserId, jwts, refreshTokens, nextToken, issued>>
     ELSE /\ nextUserId <= MaxUsers
          /\ users' = UserCreate(p.name, p.email, p.password, p.role)
          /\ nextUserId' = nextUserId + 1
          /\ resp' = Response(p.op, 201, nextUserId, p.role)
          /\ IF p.op = "register"
             THEN /\ nextToken <= MaxTokens
                  /\ jwts' = jwts \cup {getSignedJwtToken(nextUserId, users'[nextUserId])}
                  /\ refreshTokens' = (nextToken :> generateRefreshToken(nextUserId, p.ip)) @@ refreshTokens
                  /\ nextToken' = nextToken + 1
                  /\ issued' = issued \cup {nextToken}
             ELSE UNCHANGED <<jwts, refreshTokens, nextToken, issued>>
  /\ UNCHANGED <<now, calls, nextReset, server>>

\* bootstrap, the owner's login, and register and createUser requests for
\* the same e-mail in different letter cases, atomic and interleaved
NextCreate ==
  \/ \E o \in OwnerEmailInputs : Bootstrap(o)
  \/ nextToken <= MaxRegistryTokens /\ Login(OwnerEmail, OwnerDefaultPassword, "10.0.0.1")
  \/ \E e \in EmailInputs, r \in {"", "admin"} :
       nextToken <= MaxRegistryTokens /\ Register("Bob", e, "password123", r, "10.0.0.1")
  \/ \E c \in CallIds, e \in EmailInputs :
       RegisterFindOne(c, "Bob", e, "password123", "", "10.0.0.1")
  \/ \E cred \in jwts, e \in EmailInputs :
       AdminCreateUser(cred, "Bob", e, "password123", "operator")
  \/ \E c \in CallIds, cred \in jwts, e \in EmailInputs :
       CreateUserFindOne(c, cred, "Bob", e, "password123", "operator", "10.0.0.1")
  \/ \E p \in creating : UserCreateWrite(p)

SpecCreate == Init /\ [][NextCreate]_vars

\* --------------------------------------------------- store specification
\* the refresh-token store under every operation that reads or writes it or
\* changes its owners, in a deployment that bootstraps the owner at startup:
\* the owner and one registered user with sessions, one refresh call at a
\* time, logout, logout-all, the password handlers, the owner's activate and
\* delete of the other user, and a clock that reaches the end of the first
\* refresh window
NextStore ==
  \/ Bootstrap(OwnerEmail)
  \/ /\ server.bootstrapped
     /\ nextToken <= MaxRegistryTokens
     /\ Register("Bob", "a@x.com", "password123", "", "10.0.0.1")
  \/ /\ server.bootstrapped
     /\ nextToken <= MaxRegistryTokens
     /\ Login(OwnerEmail, OwnerDefaultPassword, "10.0.0.1")
  \/ \E t \in TokenIds : RefreshFind(1, t, "10.0.0.2")
  \/ RefreshUser(1)
  \/ RefreshRevoke(1)
  \/ RefreshSave(1)
  \/ \E cred \in jwts, t \in DOMAIN refreshTokens : Logout(cred, t, "10.0.0.1")
  \/ \E cred \in jwts : LogoutAll(cred, "10.0.0.1")
  \/ \E cred \in jwts : ChangePassword(cred, "password123", "newpass456", "10.0.0.1")
  \/ nextReset = 1 /\ ForgotPassword("a@x.com")
  \/ ResetPassword(1, "newpass456", "10.0.0.2")
  \/ \E cred \in jwts : \E u \in UserIds \ {cred.id} : \E a \in {"true", "false"} :
       AdminActivateUser(cred, u, a)
  \/ \E cred \in jwts : \E u \in UserIds \ {cred.id} : AdminDeleteUser(cred, u)
  \/ Tick /\ now' = RefreshTTL

SpecStore == Init /\ [][NextStore]_vars

\* ------------------------------------------------ validity specification
\* isValid applied to a stored document with every combination of the
\* fields it reads, at every instant of the clock: one active user, one
\* stored refresh document, then refresh calls and logins
InitValidity ==
  /\ users = (1 :> [name |-> "Bob", email |-> "a@x.com", password |-> "password123",
                    role |-> "viewer", isActive |-> TRUE,
                    resetPasswordToken |-> NoReset, resetPasswordExpire |-> NoTime])
  /\ nextUserId = 2
  /\ jwts = {}
  /\ \E active \in BOOLEAN, revokedAt \in {NoTime, 0}, expiresAt \in {RefreshTTL, RefreshTTL + 1} :
       refreshTokens =
         (1 :> [userId |-> 1, expiresAt |-> expiresAt, createdByIp |-> "10.0.0.1",
                revokedAt |-> revokedAt,
                revokedByIp |-> IF revokedAt = NoTime THEN NoIp ELSE "10.0.0.1",
                replacedByToken |-> NoToken, isActive |-> active])
  /\ nextToken = 2
  /\ now \in Instants
  /\ calls = [c \in CallIds |-> IdleCall]
  /\ resp = Response("none", 0, NoUser, "")
  /\ nextReset = 1
  /\ server = [listening |-> TRUE, bootstrapped |-> FALSE]
  /\ issued = DOMAIN refreshTokens
  /\ creating = {}

NextValidity ==
  \/ \E t \in DOMAIN refreshTokens : RefreshFind(1, t, "10.0.0.2")
  \/ RefreshUser(1)
  \/ RefreshRevoke(1)
  \/ RefreshSave(1)
  \/ Login("a@x.com", "password123", "10.0.0.1")
  \/ Tick

SpecValidity == InitValidity /\ [][NextValidity]_vars

\* ---------------------------------------------------------------- claims

\* C1: of two refresh calls that present the same token, at most one is
\* answered 200; the other is answered 401.
C1_SingleWinner ==
  \A c1 \in CallIds, c2 \in CallIds :
    (/\ c1 # c2
     /\ calls[c1].pc = "done" /\ calls[c2].pc = "done"
     /\ calls[c1].token # NoToken /\ calls[c1].token = calls[c2].token
     /\ calls[c1].status = 200)
      => calls[c2].status = 401

\* C2: a refresh that looks up a token whose record already names a
\* successor is answered 401; a refresh whose lookup finds the token valid
\* and whose user is found active is never rejected and ends with 200 and
\* a new stored token different from the presented one.
C2_SingleUseRotation ==
  [][\A c \in CallIds :
       /\ (/\ calls[c].pc \in {"idle", "done"}
           /\ calls'[c] # calls[c]
           /\ calls'[c].token \in DOMAIN refreshTokens)
            => /\ refreshTokens[calls'[c].token].replacedByToken # NoToken
                    => (calls'[c].pc = "done" /\ calls'[c].status = 401)
               /\ isValid(refreshTokens[calls'[c].token])
                    => calls'[c].pc = "user"
       /\ (/\ calls[c].pc = "user"
           /\ calls'[c].pc # "user"
           /\ calls[c].userId \in DOMAIN users
           /\ users[calls[c].userId].isActive)
            => calls'[c].pc = "revoke"
       /\ (calls[c].pc \in {"revoke", "save"} /\ calls'[c].pc = "done")
            => /\ calls'[c].status = 200
               /\ calls'[c].newToken \in DOMAIN refreshTokens'
               /\ calls'[c].newToken # calls'[c].token]_vars

C2_Witness ==
  \E c1 \in CallIds, c2 \in CallIds, t0 \in DOMAIN refreshTokens :
    /\ calls[c1].pc = "done" /\ calls[c1].status = 200
    /\ refreshTokens[t0].replacedByToken = calls[c1].token
    /\ calls[c2].pc = "done" /\ calls[c2].status = 401 /\ calls[c2].token = t0

\* C3: when the save of the successor fails during refresh(T), T's record
\* is left unrevoked: active, revokedAt unset, no successor.
C3_RotationFailsClosed ==
  \A c \in CallIds :
    (calls[c].pc = "done" /\ calls[c].status = 500)
      => /\ refreshTokens[calls[c].token].isActive
         /\ refreshTokens[calls[c].token].revokedAt = NoTime
         /\ refreshTokens[calls[c].token].replacedByToken = NoToken

\* C4: self-registration through the register endpoint always succeeds with
\* 201 for an unused e-mail and stores role viewer, whatever role the body
\* carries.
C4_RegisterForcesViewer ==
  [][\A e \in EmailInputs, r \in RoleInputs :
       (Register("Bob", e, "password123", r, "10.0.0.1") /\ findUserByEmail(toLowerCase(e)) = {})
         => /\ resp'.status = 201
            /\ resp'.target \in DOMAIN users'
            /\ users'[resp'.target].role = "viewer"]_vars

\* C5: once the registry holds an active owner, every operation leaves it
\* with at least one active owner.
C5_ActiveOwnerKept ==
  [][ownerCount(users) >= 1 => ownerCount(users') >= 1]_vars

\* C6: every stored user's role is one of owner, admin, operator, viewer.
C6_RolesValid == \A u \in DOMAIN users : users[u].role \in Roles

C6_Witness ==
  /\ resp.op = "changeUserRole" /\ resp.status = 200
  /\ \E u \in DOMAIN users : users[u].role = "owner"
  /\ \E u \in DOMAIN users : users[u].role = "operator"

\* C7: changeRole fails and leaves the registry as it was whenever the
\* target is an owner or the requested role is owner.
C7_ChangeRoleOwnerImmutable ==
  \A u \in UserIds, r \in RoleInputs :
    (r = "owner" \/ (u \in DOMAIN users /\ users[u].role = "owner"))
      => /\ changeUserRole(u, r).status \in {400, 403, 404}
         /\ changeUserRole(u, r).users = users

C7_Witness ==
  /\ resp.op = "changeUserRole" /\ resp.status = 400 /\ resp.role = "viewer"
  /\ resp.target \in DOMAIN users /\ users[resp.target].role = "owner"

\* C8: createUser with role owner answers 400 and creates nothing, for any
\* caller and any other fields; a user becomes owner only by Bootstrap.
C8_OwnerOnlyByBootstrap ==
  [][/\ \A n \in NameInputs, e \in EmailInputs, p \in PasswordInputs :
          /\ createUser(n, e, p, "owner").status = 400
          /\ createUser(n, e, p, "owner").users = users
     /\ (resp'.op = "createUser" /\ resp'.role = "owner")
          => (users' = users /\ resp'.status \in {400, 401, 403, 404})
     /\ \A u \in DOMAIN users' :
          (users'[u].role = "owner" /\ (u \notin DOMAIN users \/ users[u].role # "owner"))
            => resp'.op = "bootstrap"]_vars

C8_Witness == resp.op = "createUser" /\ resp.role = "owner" /\ resp.status = 400

\* C9: deleteUser answers 403 and changes nothing whenever the target is an
\* owner or is the requester itself, whatever the requester's role.
C9_DeleteProtectsOwnerAndSelf ==
  \A req \in DOMAIN users, t \in DOMAIN users :
    (users[t].role = "owner" \/ t = req)
      => deleteUser(req, t) = [status |-> 403, users |-> users]

C9_Witness ==
  /\ resp.op = "deleteUser" /\ resp.status = 403
  /\ resp.target \in DOMAIN users /\ users[resp.target].role = "owner"
  /\ \E t \in DOMAIN users : users[t].role # "owner"

\* C10: a successful deleteUser is a soft deactivation: the target is still
\* in the registry, with active=false.
C10_DeleteIsSoft ==
  (resp.op = "deleteUser" /\ resp.status = 200)
    => (resp.target \in DOMAIN users /\ ~users[resp.target].isActive)

\* C11: a successful logoutAll of user U leaves no valid refresh record of
\* U among those stored before it, however many there were; a record that
\* is inactive stays stored and inactive, and every later refresh that
\* presents it is answered 401.
C11_LogoutAllRevokesAll ==
  [][/\ (/\ resp'.op = "logoutAll" /\ resp'.status = 200
          /\ calls' = calls /\ now' = now /\ users' = users)
           => \A t \in DOMAIN refreshTokens :
                refreshTokens[t].userId = resp'.target
                  => (t \in DOMAIN refreshTokens' /\ ~isValid(refreshTokens'[t]))
     /\ \A t \in DOMAIN refreshTokens :
          ~refreshTokens[t].isActive
            => (t \in DOMAIN refreshTokens' /\ ~refreshTokens'[t].isActive)
     /\ \A c \in CallIds :
          (/\ calls[c].pc \in {"idle", "done"}
           /\ calls'[c] # calls[c]
           /\ calls'[c].token \in DOMAIN refreshTokens
           /\ ~refreshTokens[calls'[c].token].isActive)
            => (calls'[c].pc = "done" /\ calls'[c].status = 401)]_vars

C11_Witness ==
  /\ resp.op = "logoutAll" /\ resp.status = 200
  /\ \E t1 \in DOMAIN refreshTokens, t2 \in DOMAIN refreshTokens :
       /\ t1 # t2
       /\ refreshTokens[t1].userId = resp.target
       /\ refreshTokens[t2].userId = resp.target
       /\ refreshTokens[t1].revokedAt = refreshTokens[t2].revokedAt
       /\ refreshTokens[t1].replacedByToken = NoToken
       /\ refreshTokens[t2].replacedByToken = NoToken
       /\ ~refreshTokens[t1].isActive /\ ~refreshTokens[t2].isActive
       /\ \E c \in CallIds :
            calls[c].pc = "done" /\ calls[c].status = 401 /\ calls[c].token = t1

\* C12: a successful changePassword or resetPassword of user U leaves no
\* valid refresh record of U among those stored before it, and an inactive
\* record stays stored and inactive; a changePassword or resetPassword that
\* is answered with an error leaves every refresh record as it was.
C12_PasswordChangeRevokesAll ==
  [][/\ (/\ resp'.op \in {"changePassword", "resetPassword"}
          /\ calls' = calls /\ now' = now)
           => IF resp'.status = 200
              THEN \A t \in DOMAIN refreshTokens :
                     refreshTokens[t].userId = resp'.target
                       => (t \in DOMAIN refreshTokens' /\ ~isValid(refreshTokens'[t]))
              ELSE refreshTokens' = refreshTokens
     /\ \A t \in DOMAIN refreshTokens :
          ~refreshTokens[t].isActive
            => (t \in DOMAIN refreshTokens' /\ ~refreshTokens'[t].isActive)]_vars

C12_Witness ==
  /\ resp.op = "resetPassword" /\ resp.status = 200
  /\ \E t1 \in DOMAIN refreshTokens, t2 \in DOMAIN refreshTokens :
       /\ t1 # t2
       /\ refreshTokens[t1].userId = resp.target
       /\ refreshTokens[t2].userId = resp.target
       /\ refreshTokens[t1].revokedByIp = "10.0.0.2"
       /\ refreshTokens[t2].revokedByIp = "10.0.0.2"
       /\ refreshTokens[t1].replacedByToken = NoToken
       /\ refreshTokens[t2].replacedByToken = NoToken
       /\ ~refreshTokens[t1].isActive /\ ~refreshTokens[t2].isActive

\* C13 as stated: requireRole never answers 403 to a missing, malformed,
\* forged or expired credential, and answers 403 only to a verified
\* credential of a stored user whose role is not in the allowed set.
C13_403OnlyForRole ==
  \A cred \in HeaderInputs, roles \in SUBSET Roles :
    /\ (cred.kind # "jwt" \/ cred.exp <= now) => requireRole(cred, roles) # 403
    /\ requireRole(cred, roles) = 403
         => /\ cred.kind = "jwt" /\ cred.exp > now
            /\ cred.id \in DOMAIN users
            /\ users[cred.id].role \notin roles

\* C13 amended: requireRole never answers 403 to a missing, malformed,
\* forged or expired credential, and answers 403 only to a verified
\* credential of a stored user who is deactivated or whose role is not in
\* the allowed set.
C13_403OnlyForVerified ==
  \A cred \in HeaderInputs, roles \in SUBSET Roles :
    /\ (cred.kind # "jwt" \/ cred.exp <= now) => requireRole(cred, roles) # 403
    /\ requireRole(cred, roles) = 403
         => /\ cred.kind = "jwt" /\ cred.exp > now
            /\ cred.id \in DOMAIN users
            /\ (~users[cred.id].isActive \/ users[cred.id].role \notin roles)

C13_Witness ==
  /\ resp.op = "getAllUsers" /\ resp.status = 403
  /\ resp.target \in DOMAIN users
  /\ users[resp.target].role = "owner" /\ ~users[resp.target].isActive
  /\ \E cred \in jwts : cred.exp <= now

\* C14: protect answers 401 to an absent or malformed header and to a
\* forged or expired token, 404 to a verified token whose user is not
\* stored, 403 to a verified token whose user is deactivated, and otherwise
\* runs the handler with that user as req.user; the handler runs in no other
\* case.
C14_AuthenticatorOutcomes ==
  [][\A cred \in HeaderInputs :
       GetMe(cred)
         => /\ resp'.status =
                 IF cred.kind \in {"none", "malformed", "forged"} THEN 401
                 ELSE IF cred.exp <= now THEN 401
                 ELSE IF cred.id \notin DOMAIN users THEN 404
                 ELSE IF ~users[cred.id].isActive THEN 403
                 ELSE 200
            /\ resp'.target = IF resp'.status = 200 THEN cred.id ELSE NoUser
            /\ resp'.status = 200
                 => (cred.id \in DOMAIN users /\ users[cred.id].isActive)]_vars

C14_Witness ==
  /\ resp.op = "getMe" /\ resp.status = 404
  /\ \E cred \in jwts : cred.exp > now /\ cred.id \notin DOMAIN users
  /\ \E cred \in jwts : cred.exp <= now
  /\ \E u \in DOMAIN users : ~users[u].isActive

\* C15: the gate of the admin routes passes only a verified credential of a
\* stored, active user whose stored role is owner; it answers 403 to a
\* verified credential of an active admin, operator or viewer and 401 to a
\* request without credential; an admin operation changes the registry
\* only when some credential passes the gate, and listUsers is answered 200
\* only for an active owner.
C15_AdminOwnerOnly ==
  [][/\ \A cred \in Credentials :
          /\ requireRole(cred, {"owner"}) = 200
               => /\ cred.kind = "jwt" /\ cred.exp > now
                  /\ cred.id \in DOMAIN users
                  /\ users[cred.id].isActive
                  /\ users[cred.id].role = "owner"
          /\ (/\ cred.kind = "jwt" /\ cred.exp > now
              /\ cred.id \in DOMAIN users
              /\ users[cred.id].isActive
              /\ users[cred.id].role \in validRoles)
               => requireRole(cred, {"owner"}) = 403
     /\ requireRole(NoCred, {"owner"}) = 401
     /\ (resp'.op \in AdminOps /\ users' # users)
          => \E cred \in Credentials : requireRole(cred, {"owner"}) = 200
     /\ (resp'.op \in AdminOps /\ resp'.status = 401) => users' = users
     /\ (resp'.op = "getAllUsers" /\ resp'.status = 200)
          => /\ resp'.target \in DOMAIN users
             /\ users[resp'.target].isActive
             /\ users[resp'.target].role = "owner"]_vars

C15_Witness ==
  /\ resp.op = "getAllUsers" /\ resp.status = 403
  /\ resp.target \in DOMAIN users
  /\ users[resp.target].isActive /\ users[resp.target].role = "admin"
  /\ ownerCount(users) >= 1

C17_BootstrapForcesActiveOwner ==
  [][(resp'.op = "bootstrap" /\ resp'.target \in DOMAIN users)
       => /\ users'[resp'.target].role = "owner"
          /\ users'[resp'.target].isActive]_vars

\* C18: in the state Bootstrap returns in, the registry holds at least one
\* user with role owner and active=true.
C18_OwnerAfterBootstrap ==
  resp.op = "bootstrap" => ownerCount(users) >= 1

\* C19: once the server accepts requests, Bootstrap has completed.
C19_BootstrapBeforeListen ==
  server.listening => server.bootstrapped

\* C20: a logout that presents a token whose record is already inactive is
\* acknowledged and leaves that record (revokedAt, revokedByIp, successor,
\* active flag) exactly as it was.
C20_LogoutIdempotent ==
  [][(/\ resp'.op = "logout" /\ resp'.status = 200
      /\ calls' = calls /\ now' = now /\ users' = users)
       => \A t \in DOMAIN refreshTokens :
            ~refreshTokens[t].isActive => refreshTokens'[t] = refreshTokens[t]]_vars

\* C21: every 200 response of forgotPassword is the same generic
\* acknowledgement, whether or not an account has the e-mail, and its body
\* carries no reset token.
C21_ForgotPasswordGeneric ==
  (resp.op = "forgotPassword" /\ resp.status = 200)
    => (resp.target = NoReset /\ resp.role = ResetLinkSentMessage)

\* C22: a login with a password that is not the account's is answered 401
\* whether the e-mail is unregistered, registered and active, or registered
\* and deactivated.
C22_LoginGeneric ==
  \A e \in EmailInputs, p \in PasswordInputs :
    (\A u \in findUserByEmail(toLowerCase(e)) : ~matchPassword(u, p))
      => loginStatus(e, p) = 401

\* C23: a refresh call that has validated its token and then finds the
\* token's record revoked by another operation (logout, logoutAll, a
\* password change) stops with 401 and writes nothing to the store.
C23_GuardCoversRevocation ==
  [][\A c \in CallIds :
       (/\ calls[c].pc \in {"user", "revoke"}
        /\ ~refreshTokens[calls[c].token].isActive
        /\ calls'[c] # calls[c])
         => /\ calls'[c].pc = "done"
            /\ calls'[c].status = 401
            /\ refreshTokens' = refreshTokens]_vars

\* C24: the step that completes a refresh of T from ip with 200 leaves T's
\* record inactive, with revokedAt set, revokedByIp = ip and the returned
\* new token as successor; and after every step each record that names a
\* successor is inactive and the successor is a stored record of the same
\* user.
C24_SuccessorLinked ==
  [][/\ \A c \in CallIds :
          (calls[c].pc = "save" /\ calls'[c].pc = "done" /\ calls'[c].status = 200)
            => /\ ~refreshTokens'[calls[c].token].isActive
               /\ refreshTokens'[calls[c].token].revokedAt # NoTime
               /\ refreshTokens'[calls[c].token].revokedByIp = calls[c].ip
               /\ refreshTokens'[calls[c].token].replacedByToken = calls[c].newToken
     /\ \A t \in DOMAIN refreshTokens' :
          refreshTokens'[t].replacedByToken # NoToken
            => /\ ~refreshTokens'[t].isActive
               /\ refreshTokens'[t].replacedByToken \in DOMAIN refreshTokens'
               /\ refreshTokens'[refreshTokens'[t].replacedByToken].userId
                    = refreshTokens'[t].userId]_vars

\* C25: a refresh call is ended with 401 by the lookup when the presented
\* token is unknown or not valid, and by the user check when the token's
\* owner is missing or deactivated; the step that rejects leaves every
\* refresh record as it was and stores no new one.
C25_RejectedRefreshWritesNothing ==
  [][\A c \in CallIds :
       /\ (/\ calls[c].pc \in {"idle", "done"}
           /\ calls'[c] # calls[c]
           /\ calls'[c].token # NoToken
           /\ \/ calls'[c].token \notin DOMAIN refreshTokens
              \/ ~isValid(refreshTokens[calls'[c].token]))
            => /\ calls'[c].pc = "done" /\ calls'[c].status = 401
               /\ refreshTokens' = refreshTokens
       /\ (/\ calls[c].pc = "user"
           /\ calls'[c] # calls[c]
           /\ \/ calls[c].userId \notin DOMAIN users
              \/ ~users[calls[c].userId].isActive)
            => /\ calls'[c].pc = "done" /\ calls'[c].status = 401
               /\ refreshTokens' = refreshTokens
               /\ nextToken' = nextToken]_vars

C25_Witness ==
  \E c \in CallIds :
    /\ calls[c].pc = "done" /\ calls[c].status = 401
    /\ calls[c].userId # NoUser
    /\ calls[c].userId \in DOMAIN users
    /\ ~users[calls[c].userId].isActive
    /\ isValid(refreshTokens[calls[c].token])
    /\ calls[c].newToken = NoToken

C27_RevokeAllScope ==
  \A u \in UserIds, ip \in Ips :
    /\ DOMAIN revokeAllForUser(u, ip) = DOMAIN refreshTokens
    /\ \A t \in DOMAIN refreshTokens :
         IF refreshTokens[t].userId = u /\ refreshTokens[t].isActive
         THEN /\ ~revokeAllForUser(u, ip)[t].isActive
              /\ revokeAllForUser(u, ip)[t].revokedAt # NoTime
              /\ revokeAllForUser(u, ip)[t].revokedByIp = ip
              /\ revokeAllForUser(u, ip)[t].replacedByToken = NoToken
              /\ revokeAllForUser(u, ip)[t].userId = u
              /\ revokeAllForUser(u, ip)[t].expiresAt = refreshTokens[t].expiresAt
              /\ revokeAllForUser(u, ip)[t].createdByIp = refreshTokens[t].createdByIp
         ELSE revokeAllForUser(u, ip)[t] = refreshTokens[t]

\* logoutAll has revoked the user's active session next to a session a
\* refresh had already rotated, while another user holds an active session
C27_Witness ==
  /\ resp.op = "logoutAll" /\ resp.status = 200
  /\ \E t0, t1, t2 \in DOMAIN refreshTokens :
       /\ refreshTokens[t0].userId = resp.target
       /\ ~refreshTokens[t0].isActive
       /\ refreshTokens[t0].replacedByToken = t1
       /\ refreshTokens[t0].revokedByIp = "10.0.0.2"
       /\ refreshTokens[t1].userId = resp.target
       /\ ~refreshTokens[t1].isActive
       /\ refreshTokens[t1].revokedByIp = "10.0.0.1"
       /\ refreshTokens[t1].replacedByToken = NoToken
       /\ refreshTokens[t2].userId # resp.target
       /\ refreshTokens[t2].isActive

\* C28: a record is valid exactly when it is active, revokedAt is unset and
\* now < expiresAt, so a record is not valid at now = expiresAt; the lookup
\* of a refresh call lets a stored token pass exactly when that holds; and
\* a record stored by login or by a refresh expires 7 days (1008 units of
\* ten minutes) after it was generated, is active and has revokedAt unset.
C28_ValidityPredicate ==
  [][/\ \A t \in DOMAIN refreshTokens :
          /\ isValid(refreshTokens[t])
               <=> (/\ refreshTokens[t].isActive = TRUE
                    /\ refreshTokens[t].revokedAt = NoTime
                    /\ now < refreshTokens[t].expiresAt)
          /\ now = refreshTokens[t].expiresAt => ~isValid(refreshTokens[t])
     /\ \A c \in CallIds :
          (/\ calls[c].pc \in {"idle", "done"}
           /\ calls'[c] # calls[c]
           /\ calls'[c].token \in DOMAIN refreshTokens)
            => (calls'[c].pc = "user"
                  <=> (/\ refreshTokens[calls'[c].token].isActive = TRUE
                       /\ refreshTokens[calls'[c].token].revokedAt = NoTime
                       /\ now < refreshTokens[calls'[c].token].expiresAt))
     /\ \A t \in DOMAIN refreshTokens' \ DOMAIN refreshTokens :
          /\ refreshTokens'[t].isActive = TRUE
          /\ refreshTokens'[t].revokedAt = NoTime
          /\ resp'.op = "login" /\ resp' # resp
               => refreshTokens'[t].expiresAt = now + 7 * 24 * 6
          /\ \A c \in CallIds :
               (calls[c].pc = "save" /\ calls'[c].pc = "done")
                 => refreshTokens'[t].expiresAt = calls[c].at + 7 * 24 * 6]_vars

\* an active, unrevoked record was presented at the instant it expires and
\* the lookup rejected it
C28_Witness ==
  \E c \in CallIds :
    /\ calls[c].pc = "done" /\ calls[c].status = 401
    /\ calls[c].token \in DOMAIN refreshTokens
    /\ refreshTokens[calls[c].token].isActive
    /\ refreshTokens[calls[c].token].revokedAt = NoTime
    /\ now = refreshTokens[calls[c].token].expiresAt

\* C29: every refresh token that a response has carried is in the store,
\* and a register, login or refresh whose save of the new refresh record
\* fails (answered 500) hands out neither a refresh token nor an access
\* token.
C29_IssueFailsAtomically ==
  [][/\ issued' \subseteq DOMAIN refreshTokens'
     /\ (resp'.status = 500 /\ calls' = calls /\ now' = now)
          => (issued' = issued /\ jwts' = jwts)
     /\ \A c \in CallIds :
          (calls'[c] # calls[c] /\ calls'[c].status = 500)
            => (issued' = issued /\ jwts' = jwts)]_vars

\* the save of a refresh's new record has failed and the call's new pair is
\* neither stored nor handed out; then the save of a login has failed
C29_Witness ==
  /\ \E c \in CallIds :
       /\ calls[c].pc = "done" /\ calls[c].status = 500
       /\ refreshTokens[calls[c].token].replacedByToken = calls[c].newToken
       /\ calls[c].newToken \notin DOMAIN refreshTokens
       /\ calls[c].newToken \notin issued
       /\ calls[c].access \notin jwts
  /\ resp.op = "login" /\ resp.status = 500

\* C30: a request that runs only protect or requireRole and a read-only
\* handler (getMe, the user list), and a request that requireRole rejects,
\* whatever the status, leaves every user record and every refresh record
\* as it was.
C30_GateWritesNothing ==
  [][\A cred \in HeaderInputs :
       /\ (GetMe(cred) \/ AdminGetAllUsers(cred))
            => (users' = users /\ refreshTokens' = refreshTokens)
       /\ \A u \in UserIds :
            (/\ requireRole(cred, {"owner"}) # 200
             /\ \/ AdminDeleteUser(cred, u)
                \/ \E a \in ActiveInputs : AdminActivateUser(cred, u, a))
              => (users' = users /\ refreshTokens' = refreshTokens)]_vars

\* requireRole('owner') has answered 403 to an active non-owner who holds
\* an active session
C30_Witness ==
  /\ resp.op = "getAllUsers" /\ resp.status = 403
  /\ resp.target \in DOMAIN users
  /\ users[resp.target].isActive
  /\ users[resp.target].role # "owner"
  /\ \E t \in DOMAIN refreshTokens :
       refreshTokens[t].userId = resp.target /\ isValid(refreshTokens[t])

\* C31: protect accepts every unexpired access credential of an active
\* user, whatever the refresh store holds, and a logout, logoutAll,
\* password change or step of a refresh call leaves protect's answer to
\* every issued access credential as it was.
C31_AccessIndependentOfStore ==
  [][\A cred \in jwts :
       /\ (jwtVerify(cred) /\ cred.id \in DOMAIN users /\ users[cred.id].isActive)
            => protect(cred) = 200
       /\ (\/ calls' # calls
           \/ /\ now' = now
              /\ resp'.op \in {"logout", "logoutAll", "changePassword"})
            => (protect(cred))' = protect(cred)]_vars

\* after logoutAll every refresh record of the user is revoked and an
\* access credential of the user is still accepted
C31_Witness ==
  /\ resp.op = "logoutAll" /\ resp.status = 200
  /\ \E t \in DOMAIN refreshTokens :
       refreshTokens[t].userId = resp.target /\ refreshTokens[t].replacedByToken # NoToken
  /\ \A t \in DOMAIN refreshTokens :
       refreshTokens[t].userId = resp.target => ~isValid(refreshTokens[t])
  /\ \E cred \in jwts : cred.id = resp.target /\ protect(cred) = 200

\* C32: changeUserRole answers 403 when the target's role is owner and the
\* requested role is one the handler accepts.
C32_OwnerRoleChange403 ==
  \A u \in DOMAIN users, r \in validRoles :
    users[u].role = "owner" => changeUserRole(u, r).status = 403

C34_EmailUnique ==
  /\ \A u1, u2 \in DOMAIN users :
       toLowerCase(users[u1].email) = toLowerCase(users[u2].email) => u1 = u2
  /\ \A e \in EmailInputs :
       (\E u \in DOMAIN users : toLowerCase(users[u].email) = toLowerCase(e))
         => /\ \A r \in RoleInputs : registerStatus(e, r) = 400
            /\ createUser("Bob", e, "password123", "operator").status = 409

\* two requests for one e-mail had both passed their findOne; the first
\* created the user and the second was stopped by the unique index
C34_Witness ==
  /\ resp.status = 500
  /\ resp.op \in {"register", "createUser"}
  /\ \E u \in DOMAIN users : users[u].email = "a@x.com"
  /\ creating = {}

\* C35: for a credential that protect accepts and whose user has role
\* owner, hasPermission answers 200 for every permission, and
\* hasAnyPermission and hasAllPermissions answer 200 for every non-empty
\* permission list.
C35_OwnerHasEveryPermission ==
  \A cred \in jwts :
    (protect(cred) = 200 /\ users[cred.id].role = "owner")
      => /\ \A q \in Permissions : hasPermission(cred, q) = 200
         /\ \A ps \in PermissionLists :
              hasAnyPermission(cred, ps) = 200 /\ hasAllPermissions(cred, ps) = 200

\* C40: for every issued access credential that protect accepts, whatever
\* role it embeds, requireRole and the permission gates decide by the role
\* the registry stores for the user: requireRole(roles) passes exactly when
\* the stored role is in roles, and a permission gate passes exactly when
\* the stored role's PERMISSIONS entry grants it.
C40_StoredRoleDecides ==
  \A cred \in jwts :
    protect(cred) = 200
      => /\ \A roles \in RoleLists :
              requireRole(cred, roles) = 200 <=> users[cred.id].role \in roles
         /\ \A q \in Permissions :
              hasPermission(cred, q) = 200
                <=> (/\ users[cred.id].role \in PermissionRoles
                     /\ q \in PERMISSIONS(users[cred.id].role))
         /\ \A ps \in PermissionLists :
              /\ hasAnyPermission(cred, ps) = 200
                   <=> (/\ users[cred.id].role \in PermissionRoles
                        /\ \E q \in ps : q \in PERMISSIONS(users[cred.id].role))
              /\ hasAllPermissions(cred, ps) = 200
                   <=> (/\ users[cred.id].role \in PermissionRoles
                        /\ \A q \in ps : q \in PERMISSIONS(users[cred.id].role))

\* a user registered as viewer was made admin, and the credential issued
\* at registration has passed hasPermission('manageUsers')
C40_Witness ==
  /\ resp.op = "hasPermission" /\ resp.role = "manageUsers" /\ resp.status = 200
  /\ users[resp.target].role = "admin"
  /\ \A cred \in jwts : cred.id = resp.target => cred.role = "viewer"

\* C36: a forgotPassword that produces a token gives it a life of ten
\* minutes and makes every earlier token useless; no other step extends a
\* token's life; a resetPassword succeeds only with the most recently
\* produced token of the user while now is before its expiry, and after the
\* success no token is usable; a resetPassword that is answered 400 changes
\* no user and no refresh record.
C36_ResetTokenSingleUse ==
  [][/\ (resp'.op = "forgotPassword" /\ nextReset' # nextReset)
          => /\ \E u \in DOMAIN users' :
                  /\ users'[u].resetPasswordToken = sha256(nextReset)
                  /\ users'[u].resetPasswordExpire = now + 1
             /\ \A r \in ResetIds :
                  r # nextReset => (findUserByResetToken(sha256(r)))' = {}
     /\ nextReset' = nextReset
          => \A u \in DOMAIN users :
               /\ u \in DOMAIN users'
               /\ users'[u].resetPasswordExpire <= users[u].resetPasswordExpire
               /\ users'[u].resetPasswordToken \in {users[u].resetPasswordToken, NoReset}
     /\ \A r \in ResetInputs, new \in NewPasswordInputs :
          ResetPassword(r, new, "10.0.0.2")
            => IF resp'.status = 200
               THEN /\ r = nextReset - 1
                    /\ now < users[resp'.target].resetPasswordExpire
                    /\ users'[resp'.target].password = new
                    /\ \A r2 \in ResetIds : (findUserByResetToken(sha256(r2)))' = {}
               ELSE /\ resp'.status = 400
                    /\ users' = users
                    /\ refreshTokens' = refreshTokens]_vars

\* a reset has succeeded with the second token the user asked for, after
\* the first one had expired
C36_Witness ==
  /\ resp.op = "resetPassword" /\ resp.status = 200
  /\ nextReset = 3
  /\ now >= 1
  /\ users[resp.target].password = "newpass456"
  /\ users[resp.target].resetPasswordToken = NoReset

\* C37: no step gives a credential to a user whose active flag is false:
\* every step that stores a new refresh record or hands out an access
\* credential does so for a stored user who is active after that step, also
\* when the user was deactivated while the login or refresh was running.
C37_NoCredentialForInactive ==
  [][/\ \A t \in DOMAIN refreshTokens' \ DOMAIN refreshTokens :
          /\ refreshTokens'[t].userId \in DOMAIN users'
          /\ users'[refreshTokens'[t].userId].isActive
     /\ \A cred \in jwts' \ jwts :
          cred.id \in DOMAIN users' /\ users'[cred.id].isActive]_vars

\* C38: a logout changes only refresh records owned by the caller: a
\* logout step by principal P that presents token T leaves every record
\* whose userId is not P unchanged.
C38_LogoutOwnRecordsOnly ==
  [][\A cred \in jwts : \A t \in DOMAIN refreshTokens :
       Logout(cred, t, "10.0.0.1")
         => \A o \in DOMAIN refreshTokens :
              refreshTokens[o].userId # cred.id
                => refreshTokens'[o] = refreshTokens[o]]_vars

\* C39: sessions are independent per device: the write of a refresh that
\* presented T and the write of a logout that presented T change no record
\* other than T's and add none, and the save that completes the refresh
\* adds exactly one record, the successor, and changes none; every other
\* record of the same user and of other users keeps its state.
C39_SessionsIndependent ==
  [][/\ RefreshRevoke(1)
          => /\ DOMAIN refreshTokens' = DOMAIN refreshTokens
             /\ \A o \in DOMAIN refreshTokens \ {calls[1].token} :
                  refreshTokens'[o] = refreshTokens[o]
     /\ RefreshSave(1)
          => /\ DOMAIN refreshTokens' = DOMAIN refreshTokens \cup {calls[1].newToken}
             /\ calls[1].newToken \notin DOMAIN refreshTokens
             /\ \A o \in DOMAIN refreshTokens :
                  refreshTokens'[o] = refreshTokens[o]
     /\ (resp'.op = "logout" /\ refreshTokens' # refreshTokens)
          => \A cred \in jwts : \A t \in DOMAIN refreshTokens :
               Logout(cred, t, "10.0.0.1")
                 => /\ DOMAIN refreshTokens' = DOMAIN refreshTokens
                    /\ \A o \in DOMAIN refreshTokens \ {t} :
                         refreshTokens'[o] = refreshTokens[o]]_vars

\* a user with two sessions has refreshed one of them: the presented record
\* is revoked and linked to its successor, and the user's other session and
\* the successor are both valid
C39_Witness ==
  /\ calls[1].pc = "done" /\ calls[1].status = 200
  /\ \E t \in DOMAIN refreshTokens : \E o \in DOMAIN refreshTokens \ {t} :
       /\ ~refreshTokens[t].isActive
       /\ refreshTokens[t].replacedByToken \in DOMAIN refreshTokens \ {o}
       /\ isValid(refreshTokens[refreshTokens[t].replacedByToken])
       /\ refreshTokens[o].userId = refreshTokens[t].userId
       /\ isValid(refreshTokens[o])

====
